---- MODULE Spec2Model ----
(***************************************************************************)
(* RBAC utility functions of the ZenML server                              *)
(* (src/src/zenml/zen_server/rbac/utils.py): the recursive dehydration of  *)
(* response models, the extraction of the resources that need a permission *)
(* decision, the placeholder ("permission denied") models and the          *)
(* verify_* enforcement functions.                                         *)
(*                                                                         *)
(* Every behaviour is one top-level invocation: Init draws the server      *)
(* configuration, the behaviour of the RBAC backend and the clock; one     *)
(* action applies one public function to an input drawn from a bounded     *)
(* set and records the outcome, the returned value and the log of the      *)
(* rbac().check_permissions calls it issued.                               *)
(***************************************************************************)
EXTENDS Integers, Sequences, FiniteSets, TLC

VARIABLES
    rbac_enabled,   \* server_config().rbac_enabled
    denied,         \* backend: the resources whose decision is False
    omitted,        \* backend: the resources its answers leave out
    now,            \* datetime.utcnow() during the invocation
    op,             \* the function invoked ("idle" before the invocation)
    arg,            \* its input: [model, permissions, models, resources, action, order]
    res             \* its result: [exc, out, calls, resource]

vars == <<rbac_enabled, denied, omitted, now, op, arg, res>>

(***************************************************************************)
(* Bounds                                                                  *)
(***************************************************************************)
MaxId == 2        \* ids of the response models are 1..MaxId
MaxDenied == 2    \* the backend denies at most MaxDenied resources
MaxItems == 2     \* a page holds at most MaxItems items
MaxTime == 2      \* the clock reads MaxTime; earlier times are 1..MaxTime

Me == 1                     \* get_auth_context().user.id
Other == Me + 1    \* the id of another user
Owners == {0, Me, Other}    \* 0: the model records no owning user
Ids == 1..MaxId
Times == 1..MaxTime

(***************************************************************************)
(* Values: a field holds a scalar, a model instance or a container.        *)
(* Scalars carry their runtime type, which get_permission_denied_model_v1  *)
(* inspects; strings are numbered, 0 being the empty string.               *)
(***************************************************************************)
None == [k |-> "none", v |-> 0]
Uuid(n) == [k |-> "uuid", v |-> n]
Str(n) == [k |-> "str", v |-> n]
Bool(b) == [k |-> "bool", v |-> IF b THEN 1 ELSE 0]
DateTime(t) == [k |-> "datetime", v |-> t]
EnumV(n) == [k |-> "enum", v |-> n]
IntV(n) == [k |-> "int", v |-> n]
ModelV(cls, f) == [k |-> "model", cls |-> cls, f |-> f]
ListV(s) == [k |-> "list", items |-> s]
TupleV(s) == [k |-> "tuple", titems |-> s]
SetV(S) == [k |-> "set", elems |-> S]
DictV(ks, vs) == [k |-> "dict", keys |-> ks, vals |-> vs]

IsModel(value) == value.k = "model"

(***************************************************************************)
(* The classes of zenml.models the functions dispatch on.                  *)
(***************************************************************************)
V2Classes == {"UserResponse", "WorkspaceResponse", "StackResponse"}
V1Classes ==
    {"ModelResponseModel", "ModelVersionResponseModel", "TagResponseModel"}

\* isinstance(value, BaseResponse)
IsBaseResponse(value) == IsModel(value) /\ value.cls \in V2Classes
\* isinstance(value, BaseResponseModel)
IsBaseResponseModel(value) == IsModel(value) /\ value.cls \in V1Classes
\* isinstance(value, (BaseResponse, BaseResponseModel))
IsResponse(value) == IsBaseResponse(value) \/ IsBaseResponseModel(value)
\* isinstance(model, (UserScopedResponseModel, UserScopedResponse))
IsUserScoped(value) ==
    IsModel(value)
    /\ value.cls \in {"StackResponse", "ModelResponseModel",
                      "ModelVersionResponseModel"}

\* model.__fields__.keys(), in declaration order
Fields(cls) ==
    CASE cls \in V2Classes -> <<"id", "permission_denied", "body", "metadata">>
      [] cls = "ModelResponseModel" ->
            <<"id", "name", "created", "user", "workspace", "tags",
              "missing_permissions">>
      [] cls = "ModelVersionResponseModel" ->
            <<"id", "name", "created", "user", "workspace", "model",
              "missing_permissions">>
      [] cls = "TagResponseModel" ->
            <<"id", "name", "created", "color", "missing_permissions">>
      [] cls = "ResponseBody" -> <<"user", "nested">>
      [] cls = "ResponseMetadata" -> <<"description">>
      [] cls = "Page" -> <<"index", "max_size", "total_pages", "total", "items">>

\* field.allow_none: the fields declared Optional
AllowNone(cls, field_name) ==
    \/ cls \in V2Classes /\ field_name \in {"body", "metadata"}
    \/ cls \in V1Classes \ {"TagResponseModel"} /\ field_name = "user"
    \/ cls = "ResponseBody" /\ field_name \in {"user", "nested"}

\* model.user: a field of the legacy models, and of the body of the current
\* ones; a model without body reads as one without owning user
UserOf(model) ==
    IF model.cls \in V1Classes \ {"TagResponseModel"} THEN model.f.user
    ELSE IF IsModel(model.f.body) THEN model.f.body.f.user
    ELSE None

\* type(model).parse_obj(values)
parse_obj(cls, values) == ModelV(cls, values)

(***************************************************************************)
(* Resources                                                               *)
(***************************************************************************)
NoResource == [type |-> "none", id |-> 0]
Resource(type, id) == [type |-> type, id |-> id]

READ == "read"
UPDATE == "update"
Actions == {READ, UPDATE}

get_resource_type_for_model(model) ==
    CASE model.cls = "StackResponse" -> "stack"
      [] model.cls = "ModelResponseModel" -> "model"
      [] model.cls = "WorkspaceResponse" -> "workspace"
      [] model.cls = "UserResponse" -> "user"
      [] model.cls = "TagResponseModel" -> "tag"
      [] OTHER -> "none"

get_resource_for_model(model) ==
    LET resource_type == get_resource_type_for_model(model)
    IN  IF resource_type = "none" THEN NoResource
        ELSE Resource(resource_type, model.f.id.v)

get_surrogate_permission_model_for_model(model, action) ==
    IF action = READ /\ model.cls = "ModelVersionResponseModel"
    THEN model.f.model
    ELSE model

is_owned_by_authenticated_user(model) ==
    IF IsUserScoped(model)
    THEN IF UserOf(model) # None
         THEN UserOf(model).f.id.v = Me
         ELSE TRUE
    ELSE FALSE

(***************************************************************************)
(* Helpers over sequences and sets                                         *)
(***************************************************************************)
RECURSIVE UnionAll(_)
UnionAll(sets) ==
    IF sets = <<>> THEN {} ELSE Head(sets) \cup UnionAll(Tail(sets))

\* the values of the fields of a model, in field order
FieldValues(model) ==
    [i \in 1..Len(Fields(model.cls)) |-> model.f[Fields(model.cls)[i]]]

\* the index of a field name in the field order
FieldIndex(cls, name) ==
    CHOOSE i \in 1..Len(Fields(cls)) : Fields(cls)[i] = name

\* the orders in which a set can be iterated
Orders(S) ==
    {o \in [1..Cardinality(S) -> S] : \A e \in S : \E i \in DOMAIN o : o[i] = e}

\* the elements of a set as a sequence, in one of its iteration orders
SetToSeq(S) == CHOOSE o \in Orders(S) : TRUE

(***************************************************************************)
(* Resource extraction                                                     *)
(***************************************************************************)
RECURSIVE get_subresources_for_model(_), _get_subresources_for_value(_),
          SubresourcesOfEach(_)

SubresourcesOfEach(values) ==
    [i \in DOMAIN values |-> _get_subresources_for_value(values[i])]

get_subresources_for_model(model) ==
    UnionAll(SubresourcesOfEach(FieldValues(model)))

\* _get_subresources_for_value without the ownership test
_get_subresources_for_value_all(value) ==
    IF IsResponse(value)
    THEN LET surrogate == get_surrogate_permission_model_for_model(value, READ)
             resource == get_resource_for_model(surrogate)
         IN  (IF resource # NoResource THEN {resource} ELSE {})
                 \cup get_subresources_for_model(surrogate)
    ELSE IF IsModel(value) THEN get_subresources_for_model(value)
    ELSE IF value.k = "dict" THEN UnionAll(SubresourcesOfEach(value.vals))
    ELSE IF value.k \in {"list", "tuple"}
         THEN UnionAll(SubresourcesOfEach(
                 IF value.k = "list" THEN value.items ELSE value.titems))
    ELSE {}

_get_subresources_for_value(value) ==
    IF IsResponse(value)
    THEN IF ~is_owned_by_authenticated_user(value)
         THEN LET surrogate == get_surrogate_permission_model_for_model(value, READ)
                  resource == get_resource_for_model(surrogate)
              IN  (IF resource # NoResource THEN {resource} ELSE {})
                      \cup get_subresources_for_model(surrogate)
         ELSE get_subresources_for_model(value)
    ELSE IF IsModel(value) THEN get_subresources_for_model(value)
    ELSE IF value.k = "dict" THEN UnionAll(SubresourcesOfEach(value.vals))
    ELSE IF value.k \in {"list", "tuple"}
         THEN UnionAll(SubresourcesOfEach(
                 IF value.k = "list" THEN value.items ELSE value.titems))
    ELSE IF value.k = "set"
         THEN UNION {_get_subresources_for_value(v) : v \in value.elems}
    ELSE {}

(***************************************************************************)
(* The RBAC backend, rbac().check_permissions: it answers the queried      *)
(* resources except those it omits. Its decisions do not depend on the     *)
(* action: no invocation queries two actions.                              *)
(***************************************************************************)
check_permissions(resources, action) ==
    [r \in resources \ omitted |-> r \notin denied]

\* a logged call: the queried resources, the action, the function issuing it
Call(resources, action, by) ==
    [resources |-> resources, action |-> action, by |-> by]

\* the outcome of an invocation: normal return of a value, or an exception
Returned(out, calls) ==
    [exc |-> "none", out |-> out, calls |-> calls,
     resource |-> NoResource, action |-> "none"]
Raised(exc, resource, action, calls) ==
    [exc |-> exc, out |-> None, calls |-> calls,
     resource |-> resource, action |-> action]
\* the outcome r, after the calls issued before it
After(calls, r) == [r EXCEPT !.calls = calls \o r.calls]

(***************************************************************************)
(* Enforcement: batch_verify_permissions and the functions built on it.    *)
(* order is the order in which the loop iterates the set of resources.     *)
(***************************************************************************)
\* batch_verify_permissions reading a missing decision as a denial
batch_verify_permissions_missing_denies(resources, action, order) ==
    IF ~rbac_enabled THEN Returned(None, <<>>)
    ELSE LET permissions == check_permissions(resources, action)
             calls == <<Call(resources, action, "batch_verify_permissions")>>
             failing == {i \in DOMAIN order :
                            \/ order[i] \notin DOMAIN permissions
                            \/ ~permissions[order[i]]}
         IN  IF failing = {} THEN Returned(None, calls)
             ELSE LET i == CHOOSE i \in failing : \A j \in failing : i <= j
                  IN  Raised("IllegalOperationError", order[i], action, calls)

batch_verify_permissions(resources, action, order) ==
    IF ~rbac_enabled THEN Returned(None, <<>>)
    ELSE LET permissions == check_permissions(resources, action)
             calls == <<Call(resources, action, "batch_verify_permissions")>>
             failing == {i \in DOMAIN order :
                            \/ order[i] \notin DOMAIN permissions
                            \/ ~permissions[order[i]]}
         IN  IF failing = {} THEN Returned(None, calls)
             ELSE LET i == CHOOSE i \in failing : \A j \in failing : i <= j
                  IN  IF order[i] \notin DOMAIN permissions
                      THEN Raised("RuntimeError", order[i], action, calls)
                      ELSE Raised("IllegalOperationError", order[i], action, calls)

verify_permission(resource_type, action, resource_id) ==
    LET resource == Resource(resource_type, resource_id)
    IN  batch_verify_permissions({resource}, action, <<resource>>)

\* the resources batch_verify_permissions_for_models collects
ResourcesOfModels(models, action) ==
    {get_resource_for_model(get_surrogate_permission_model_for_model(
            models[i], action)) :
        i \in {j \in DOMAIN models : ~is_owned_by_authenticated_user(models[j])}}
    \ {NoResource}

\* batch_verify_permissions_for_models without the ownership shortcut
batch_verify_permissions_for_models_all(models, action, order) ==
    IF ~rbac_enabled THEN Returned(None, <<>>)
    ELSE batch_verify_permissions(
            {get_resource_for_model(get_surrogate_permission_model_for_model(
                    models[i], action)) : i \in DOMAIN models} \ {NoResource},
            action,
            SetToSeq({get_resource_for_model(
                         get_surrogate_permission_model_for_model(
                             models[i], action)) : i \in DOMAIN models}
                     \ {NoResource}))

batch_verify_permissions_for_models(models, action, order) ==
    IF ~rbac_enabled THEN Returned(None, <<>>)
    ELSE batch_verify_permissions(ResourcesOfModels(models, action), action, order)

verify_permission_for_model(model, action) ==
    batch_verify_permissions_for_models(
        <<model>>, action, SetToSeq(ResourcesOfModels(<<model>>, action)))

\* has_permissions_for_model without its except clause
has_permissions_for_model_uncaught(model, action) ==
    IF is_owned_by_authenticated_user(model) THEN Returned(Bool(TRUE), <<>>)
    ELSE LET v == verify_permission_for_model(model, action)
         IN  IF v.exc = "none" THEN Returned(Bool(TRUE), v.calls) ELSE v

has_permissions_for_model(model, action) ==
    IF is_owned_by_authenticated_user(model) THEN Returned(Bool(TRUE), <<>>)
    ELSE LET v == verify_permission_for_model(model, action)
         IN  IF v.exc = "none" THEN Returned(Bool(TRUE), v.calls)
             ELSE IF v.exc = "IllegalOperationError"
                  THEN Returned(Bool(FALSE), v.calls)
             ELSE v

(***************************************************************************)
(* Placeholders                                                            *)
(***************************************************************************)
\* model.copy(exclude={"body", "metadata"}, update={"permission_denied": True}):
\* the excluded optional fields read as absent
\* get_permission_denied_model_v2 that only sets the flag
get_permission_denied_model_v2_keeps_body(model) ==
    ModelV(model.cls, [model.f EXCEPT !.permission_denied = Bool(TRUE)])

get_permission_denied_model_v2(model) ==
    ModelV(model.cls,
           [name \in DOMAIN model.f |->
               IF name \in {"body", "metadata"} THEN None
               ELSE IF name = "permission_denied" THEN Bool(TRUE)
               ELSE model.f[name]])

\* type_(): the empty value of the runtime type of value
EmptyOf(value) ==
    CASE value.k = "str" -> Str(0)
      [] value.k = "int" -> IntV(0)
      [] value.k = "bool" -> Bool(FALSE)
      [] value.k = "list" -> ListV(<<>>)
      [] value.k = "tuple" -> TupleV(<<>>)
      [] value.k = "set" -> SetV({})
      [] value.k = "dict" -> DictV(<<>>, <<>>)
      [] OTHER -> None

RECURSIVE get_permission_denied_model_v1(_, _, _)
get_permission_denied_model_v1(model, keep_id, keep_name) ==
    LET Replaced(field_name) ==
            LET value == model.f[field_name]
            IN  IF keep_id /\ field_name = "id" /\ value.k = "uuid" THEN value
                ELSE IF keep_name /\ field_name = "name" /\ value.k = "str"
                     THEN value
                ELSE IF AllowNone(model.cls, field_name) THEN None
                ELSE IF IsBaseResponseModel(value)
                     THEN get_permission_denied_model_v1(value, FALSE, FALSE)
                ELSE IF IsBaseResponse(value)
                     THEN get_permission_denied_model_v2(value)
                ELSE IF value.k = "uuid" THEN Uuid(0)
                ELSE IF value.k = "datetime" THEN DateTime(now)
                ELSE IF value.k = "enum" THEN EnumV(0)
                ELSE EmptyOf(value)
    IN  parse_obj(model.cls,
                  [field_name \in DOMAIN model.f |->
                      IF field_name = "missing_permissions" THEN Bool(TRUE)
                      ELSE Replaced(field_name)])

get_permission_denied_model(model) ==
    IF IsBaseResponse(model) THEN get_permission_denied_model_v2(model)
    ELSE get_permission_denied_model_v1(model, TRUE, TRUE)

(***************************************************************************)
(* Dehydration. A prefetched permissions map is a function from resources  *)
(* to BOOLEAN; the empty function stands for both None and {}, which the   *)
(* code does not tell apart (`not permissions`, `permissions or {}`).      *)
(***************************************************************************)
NoPermissions == [r \in {} |-> TRUE]

RECURSIVE dehydrate_response_model(_, _), _dehydrate_value(_, _),
          DehydrateEach(_, _), Collect(_)

\* the outcome of producing the values of a sequence in order, each element
\* being the outcome of producing one value: the exception of the first
\* element that raised, after the calls of the elements before it, and
\* otherwise the sequence of the values with all the calls
Collect(outcomes) ==
    IF outcomes = <<>> THEN Returned(<<>>, <<>>)
    ELSE IF Head(outcomes).exc # "none" THEN Head(outcomes)
    ELSE LET t == Collect(Tail(outcomes))
         IN  IF t.exc # "none" THEN After(Head(outcomes).calls, t)
             ELSE Returned(<<Head(outcomes).out>> \o t.out,
                           Head(outcomes).calls \o t.calls)

\* _dehydrate_value applied to the values of a sequence in order
DehydrateEach(values, permissions) ==
    Collect([i \in DOMAIN values |-> _dehydrate_value(values[i], permissions)])

\* type(model).parse_obj(dehydrated_model_data), d being the outcome of
\* dehydrating the values of the fields of model
Rebuilt(model, d) ==
    IF d.exc # "none" THEN d
    ELSE Returned(parse_obj(model.cls,
                            [field_name \in DOMAIN model.f |->
                                d.out[FieldIndex(model.cls, field_name)]]),
                  d.calls)

dehydrate_response_model(model, permissions) ==
    IF ~rbac_enabled THEN Returned(model, <<>>)
    ELSE LET fetch == DOMAIN permissions = {}
             resources == get_subresources_for_model(model)
             perms == IF fetch THEN check_permissions(resources, READ)
                      ELSE permissions
             calls == IF fetch
                      THEN <<Call(resources, READ, "dehydrate_response_model")>>
                      ELSE <<>>
         IN  After(calls, Rebuilt(model, DehydrateEach(FieldValues(model), perms)))

_dehydrate_value(value, permissions) ==
    IF IsResponse(value)
    THEN LET surrogate == get_surrogate_permission_model_for_model(value, READ)
             resource == get_resource_for_model(surrogate)
         IN  IF resource = NoResource
             THEN dehydrate_response_model(surrogate, permissions)
             ELSE LET has_permissions ==
                          IF resource \in DOMAIN permissions
                          THEN permissions[resource] ELSE FALSE
                      h == IF has_permissions THEN Returned(Bool(TRUE), <<>>)
                           ELSE has_permissions_for_model(surrogate, READ)
                  IN  IF h.exc # "none" THEN h
                      ELSE IF h.out = Bool(TRUE)
                           THEN After(h.calls,
                                      dehydrate_response_model(surrogate, permissions))
                      ELSE Returned(get_permission_denied_model(surrogate), h.calls)
    ELSE IF IsModel(value) THEN dehydrate_response_model(value, permissions)
    ELSE IF value.k = "dict"
         THEN LET d == DehydrateEach(value.vals, permissions)
              IN  IF d.exc # "none" THEN d
                  ELSE Returned(DictV(value.keys, d.out), d.calls)
    ELSE IF value.k = "list"
         THEN LET d == DehydrateEach(value.items, permissions)
              IN  IF d.exc # "none" THEN d
                  ELSE Returned(ListV(d.out), d.calls)
    ELSE IF value.k = "tuple"
         THEN LET d == DehydrateEach(value.titems, permissions)
              IN  IF d.exc # "none" THEN d
                  ELSE Returned(TupleV(d.out), d.calls)
    ELSE IF value.k = "set"
         THEN LET d == DehydrateEach(SetToSeq(value.elems), permissions)
              IN  IF d.exc # "none" THEN d
                  ELSE Returned(SetV({d.out[i] : i \in DOMAIN d.out}), d.calls)
    ELSE Returned(value, <<>>)

\* [get_subresources_for_model(item) for item in page.items]
SubresourcesPerItem(items) ==
    [i \in DOMAIN items |-> get_subresources_for_model(items[i])]

\* [dehydrate_response_model(item, permissions=permissions) for item in
\* page.items]
DehydrateItems(items, permissions) ==
    Collect([i \in DOMAIN items |->
                dehydrate_response_model(items[i], permissions)])

\* page.copy(update={"items": new_items}), d being the outcome of
\* dehydrating the items of page
PageWith(page, d) ==
    IF d.exc # "none" THEN d
    ELSE Returned(ModelV(page.cls, [page.f EXCEPT !.items = ListV(d.out)]),
                  d.calls)

\* dehydrate_page without the test of the rbac_enabled toggle
dehydrate_page_unguarded(page) ==
    LET resources == UNION {get_subresources_for_model(page.f.items.items[i]) :
                               i \in DOMAIN page.f.items.items}
    IN  Returned(page, <<Call(resources, READ, "dehydrate_page")>>)

dehydrate_page(page) ==
    IF ~rbac_enabled THEN Returned(page, <<>>)
    ELSE LET resources == UnionAll(SubresourcesPerItem(page.f.items.items))
         IN  After(<<Call(resources, READ, "dehydrate_page")>>,
                   PageWith(page,
                            DehydrateItems(page.f.items.items,
                                           check_permissions(resources, READ))))

(***************************************************************************)
(* The inputs: response models of bounded depth                            *)
(***************************************************************************)
EmptyBody == ModelV("ResponseBody", [user |-> None, nested |-> None])
Metadata == ModelV("ResponseMetadata", [description |-> Str(1)])

User(id) ==
    ModelV("UserResponse",
           [id |-> Uuid(id), permission_denied |-> Bool(FALSE),
            body |-> EmptyBody, metadata |-> Metadata])

Workspace(id) ==
    ModelV("WorkspaceResponse",
           [id |-> Uuid(id), permission_denied |-> Bool(FALSE),
            body |-> EmptyBody, metadata |-> Metadata])

OwnerValue(owner) == IF owner = 0 THEN None ELSE User(owner)

Stack(id, owner, nested) ==
    ModelV("StackResponse",
           [id |-> Uuid(id), permission_denied |-> Bool(FALSE),
            body |-> ModelV("ResponseBody",
                            [user |-> OwnerValue(owner), nested |-> nested]),
            metadata |-> Metadata])

Model(id, owner) ==
    ModelV("ModelResponseModel",
           [id |-> Uuid(id), name |-> Str(id), created |-> DateTime(1),
            user |-> OwnerValue(owner), workspace |-> Workspace(1),
            tags |-> ListV(<<Str(1)>>), missing_permissions |-> Bool(FALSE)])

ModelVersion(id, owner, model) ==
    ModelV("ModelVersionResponseModel",
           [id |-> Uuid(id), name |-> Str(id), created |-> DateTime(1),
            user |-> OwnerValue(owner), workspace |-> Workspace(1),
            model |-> model, missing_permissions |-> Bool(FALSE)])

Tag(id) ==
    ModelV("TagResponseModel",
           [id |-> Uuid(id), name |-> Str(id), created |-> DateTime(1),
            color |-> EnumV(1), missing_permissions |-> Bool(FALSE)])

\* response models without nested response models of their own choosing
Leaves ==
    {User(u) : u \in {Me, Other}} \cup {Workspace(1), Tag(1)}
    \cup {Stack(i, o, None) : i \in Ids, o \in Owners}
    \cup {Model(i, o) : i \in Ids, o \in Owners}
    \cup {ModelVersion(1, o, Model(1, p)) : o \in Owners, p \in {Me, Other}}

\* the sub-objects put into containers and below other sub-objects
Small ==
    {Stack(1, Other, None), Stack(1, Me, None), Model(1, Other),
     Stack(MaxId, Other, None)}

Deep ==
    {Stack(MaxId, o, x) : o \in {Me, Other},
                          x \in {Model(1, Other), Stack(1, Other, None)}}

Nesteds ==
    {None} \cup Leaves \cup Deep
    \cup {ListV(<<a, b>>) : a \in Small, b \in Small}
    \cup {DictV(<<Str(1)>>, <<ListV(<<a>>)>>) : a \in Small}
    \cup {TupleV(<<a, Str(1)>>) : a \in Small}
    \cup {SetV({Str(1), Str(2)})}

\* the models handed to dehydrate_response_model and get_subresources_for_model
Tops == {Stack(1, Me, n) : n \in Nesteds} \cup Leaves

\* the placeholders of the models, made at any time up to now
PlaceholdersAt(t) ==
    {IF IsBaseResponse(m) THEN get_permission_denied_model_v2(m)
     ELSE [get_permission_denied_model_v1(m, TRUE, TRUE)
              EXCEPT !.f.created = DateTime(t)] : m \in Leaves}
Placeholders == UNION {PlaceholdersAt(t) : t \in 1..now}

ResourceUniverse ==
    {Resource(t, i) : t \in {"stack", "model"}, i \in Ids}
    \cup {Resource("user", u) : u \in {Me, Other}}
    \cup {Resource("workspace", 1), Resource("tag", 1)}

\* the prefetched maps a caller supplies: none, or a decision on one resource
SuppliedMaps ==
    {NoPermissions}
    \cup {[r \in {q} |-> b] :
            q \in {Resource("stack", 1), Resource("model", 1)}, b \in BOOLEAN}

\* the resources the backend may decide with false: those of the models
\* that occur below the models handed to the functions
Deniable ==
    {Resource("stack", 1), Resource("stack", MaxId), Resource("model", 1),
     Resource("workspace", 1), Resource("user", Me), Resource("user", Other)}

\* the resources the backend may leave out of its answers
Omittable == {Resource("stack", 1), Resource("model", 1)}

\* the models handed to the verify_* functions
VerifyModels ==
    {Stack(1, Me, None), Stack(1, Other, None), Stack(MaxId, 0, None),
     Model(1, Other), ModelVersion(1, Me, Model(1, Other)),
     ModelVersion(1, Other, Model(1, Me)),
     ModelVersion(1, 0, Model(1, Other)), Workspace(1)}

\* the resources handed to batch_verify_permissions
VerifyResources ==
    {Resource("stack", 1), Resource("model", 1), Resource("stack", MaxId)}

\* the models dehydrated with a prefetched map
Prefetched == {Stack(1, Me, n) : n \in Small \cup Deep}

PageItems ==
    {User(Me), Model(MaxId, Me), Stack(1, Other, None),
     Stack(1, Me, Model(1, Other)), Stack(MaxId, Other, Stack(1, Other, None))}

RECURSIVE SeqsUpTo(_, _)
SeqsUpTo(S, n) ==
    IF n = 0 THEN {<<>>}
    ELSE LET shorter == SeqsUpTo(S, n - 1)
         IN  shorter \cup {Append(q, e) : q \in shorter, e \in S}

PageOf(items) ==
    ModelV("Page",
           [index |-> IntV(1), max_size |-> IntV(MaxItems),
            total_pages |-> IntV(1), total |-> IntV(Len(items)),
            items |-> ListV(items)])

Pages == {PageOf(items) : items \in SeqsUpTo(PageItems, MaxItems)}

NoArg ==
    [model |-> None, permissions |-> NoPermissions, models |-> <<>>,
     resources |-> {}, action |-> "none", order |-> <<>>]

(***************************************************************************)
(* The state machine                                                       *)
(***************************************************************************)
Init ==
    /\ rbac_enabled \in BOOLEAN
    /\ denied \in {D \in SUBSET Deniable : Cardinality(D) <= MaxDenied}
    /\ omitted \in {O \in SUBSET Omittable : Cardinality(O) <= 1}
    /\ now = MaxTime
    /\ op = "idle"
    /\ arg = NoArg
    /\ res = Returned(None, <<>>)

Invoke(name, a, r) ==
    /\ op' = name
    /\ arg' = a
    /\ res' = r
    /\ UNCHANGED <<rbac_enabled, denied, omitted, now>>

DehydrateResponseModel ==
    /\ op = "idle"
    /\ \E model \in Tops \cup Placeholders,
          permissions \in SuppliedMaps :
        /\ permissions # NoPermissions => model \in Prefetched
        /\ Invoke("dehydrate_response_model",
               [NoArg EXCEPT !.model = model, !.permissions = permissions],
               dehydrate_response_model(model, permissions))

DehydratePage ==
    /\ op = "idle"
    /\ \E page \in Pages :
        Invoke("dehydrate_page", [NoArg EXCEPT !.model = page],
               dehydrate_page(page))

GetSubresourcesForModel ==
    /\ op = "idle"
    /\ \E model \in Tops \cup Placeholders :
        Invoke("get_subresources_for_model", [NoArg EXCEPT !.model = model],
               Returned(get_subresources_for_model(model), <<>>))

GetPermissionDeniedModel ==
    /\ op = "idle"
    /\ \E model \in Leaves :
        Invoke("get_permission_denied_model", [NoArg EXCEPT !.model = model],
               Returned(get_permission_denied_model(model), <<>>))

BatchVerifyPermissionsForModels ==
    /\ op = "idle"
    /\ \E models \in SeqsUpTo(VerifyModels, 2), action \in Actions :
        \E order \in Orders(ResourcesOfModels(models, action)) :
            Invoke("batch_verify_permissions_for_models",
                   [NoArg EXCEPT !.models = models, !.action = action,
                                 !.order = order],
                   batch_verify_permissions_for_models(models, action, order))

VerifyPermissionForModel ==
    /\ op = "idle"
    /\ \E model \in VerifyModels, action \in Actions :
        Invoke("verify_permission_for_model",
               [NoArg EXCEPT !.models = <<model>>, !.action = action],
               verify_permission_for_model(model, action))

BatchVerifyPermissions ==
    /\ op = "idle"
    /\ \E resources \in {S \in SUBSET VerifyResources : Cardinality(S) <= 2},
       action \in Actions :
        \E order \in Orders(resources) :
            Invoke("batch_verify_permissions",
                   [NoArg EXCEPT !.resources = resources, !.action = action,
                                 !.order = order],
                   batch_verify_permissions(resources, action, order))

VerifyPermission ==
    /\ op = "idle"
    /\ \E resource \in ResourceUniverse, action \in Actions :
        Invoke("verify_permission",
               [NoArg EXCEPT !.resources = {resource}, !.action = action],
               verify_permission(resource.type, action, resource.id))

Next ==
    \/ DehydrateResponseModel
    \/ DehydratePage
    \/ GetSubresourcesForModel
    \/ GetPermissionDeniedModel
    \/ BatchVerifyPermissionsForModels
    \/ VerifyPermissionForModel
    \/ BatchVerifyPermissions
    \/ VerifyPermission

Spec == Init /\ [][Next]_vars

(***************************************************************************)
(* Vocabulary of the properties                                            *)
(***************************************************************************)
ReadPath == op \in {"dehydrate_response_model", "dehydrate_page"}

\* the denied flag of a response model is set
IsDenied(value) ==
    /\ IsResponse(value)
    /\ IF IsBaseResponse(value) THEN value.f.permission_denied = Bool(TRUE)
       ELSE value.f.missing_permissions = Bool(TRUE)

\* new is a placeholder substituted for orig
IsPlaceholderFor(orig, new) == IsDenied(new) /\ ~IsDenied(orig)

\* The response models the dehydration walk visits below value, each paired
\* with what the output holds at its position; the walk does not go below a
\* position whose content was replaced.
RECURSIVE VisitedIn(_, _), VisitedInEach(_, _)
VisitedInEach(values, results) ==
    IF Len(values) # Len(results) THEN {}
    ELSE UNION {VisitedIn(values[i], results[i]) : i \in DOMAIN values}

VisitedIn(value, result) ==
    IF IsResponse(value)
    THEN {[orig |-> value, new |-> result]}
         \cup (IF /\ IsModel(result)
                  /\ result.cls = value.cls
                  /\ ~IsPlaceholderFor(value, result)
               THEN VisitedInEach(FieldValues(value), FieldValues(result))
               ELSE {})
    ELSE IF IsModel(value)
         THEN IF IsModel(result) /\ result.cls = value.cls
              THEN VisitedInEach(FieldValues(value), FieldValues(result))
              ELSE {}
    ELSE IF value.k = "dict" /\ result.k = "dict"
         THEN VisitedInEach(value.vals, result.vals)
    ELSE IF value.k = "list" /\ result.k = "list"
         THEN VisitedInEach(value.items, result.items)
    ELSE IF value.k = "tuple" /\ result.k = "tuple"
         THEN VisitedInEach(value.titems, result.titems)
    ELSE {}

\* the sub-objects visited by the invocation recorded in the state; the
\* model handed to dehydrate_response_model and the items of a page are the
\* top-level models, not sub-objects
Visited ==
    IF res.exc # "none" THEN {}
    ELSE IF op = "dehydrate_response_model"
         THEN VisitedInEach(FieldValues(arg.model), FieldValues(res.out))
    ELSE IF op = "dehydrate_page"
         THEN UNION {VisitedInEach(FieldValues(arg.model.f.items.items[i]),
                                   FieldValues(res.out.f.items.items[i])) :
                        i \in DOMAIN arg.model.f.items.items}
    ELSE {}

\* the model whose resource and ownership decide the READ access to value
PermissionModel(value) == get_surrogate_permission_model_for_model(value, READ)

\* the prefetched map of the invocation grants the resource
GrantedByMap(resource) ==
    resource \in DOMAIN arg.permissions /\ arg.permissions[resource]

\* a visited sub-object that is not owned and whose READ decision is false
DeniedCase(p) ==
    /\ get_resource_for_model(PermissionModel(p.orig)) # NoResource
    /\ ~is_owned_by_authenticated_user(PermissionModel(p.orig))
    /\ get_resource_for_model(PermissionModel(p.orig)) \in denied
    /\ ~GrantedByMap(get_resource_for_model(PermissionModel(p.orig)))

OwnedByMe(value) ==
    /\ IsUserScoped(value)
    /\ UserOf(value) # None
    /\ UserOf(value).f.id.v = Me

\* the response models directly below value: those reached through generic
\* models and containers only
RECURSIVE FirstLevel(_)
FirstLevel(value) ==
    IF IsResponse(value) THEN {value}
    ELSE IF IsModel(value)
         THEN UNION {FirstLevel(value.f[n]) : n \in DOMAIN value.f}
    ELSE IF value.k = "dict"
         THEN UNION {FirstLevel(value.vals[i]) : i \in DOMAIN value.vals}
    ELSE IF value.k = "list"
         THEN UNION {FirstLevel(value.items[i]) : i \in DOMAIN value.items}
    ELSE IF value.k = "tuple"
         THEN UNION {FirstLevel(value.titems[i]) : i \in DOMAIN value.titems}
    ELSE IF value.k = "set" THEN UNION {FirstLevel(v) : v \in value.elems}
    ELSE {}

\* the sub-objects directly below the fields of a model
SubObjects(model) == UNION {FirstLevel(model.f[n]) : n \in DOMAIN model.f}

\* C2 (as claimed): a sub-object whose owning-user id is the id of the
\* current identity is never replaced by a placeholder by
\* dehydrate_response_model / dehydrate_page, and the visit of such a
\* sub-object by get_subresources_for_model adds no resource for it.
C2_OwnedNeverRedacted ==
    /\ (ReadPath /\ rbac_enabled) =>
          \A p \in Visited : OwnedByMe(p.orig) => ~IsPlaceholderFor(p.orig, p.new)
    /\ op = "get_subresources_for_model" =>
          \A o \in SubObjects(arg.model) :
              OwnedByMe(o) =>
                  _get_subresources_for_value(o) = get_subresources_for_model(o)

\* the resources dehydrate_page extracts from the items of the page
PageResources(page) ==
    UNION {get_subresources_for_model(page.f.items.items[i]) :
              i \in DOMAIN page.f.items.items}

\* the calls that ask the backend about at least one resource
BackendQueries == {i \in DOMAIN res.calls : res.calls[i].resources # {}}

\* C3 (as claimed): with RBAC enabled, dehydrate_page queries the backend
\* once in total, for the union of the resources extracted from the items,
\* whatever the backend decides on them. (A call for no resource at all is
\* not counted against the claim.)
C3_OneCallPerPage ==
    (op = "dehydrate_page" /\ rbac_enabled /\ omitted = {}) =>
        /\ res.calls # <<>>
        /\ res.calls[1].resources = PageResources(arg.model)
        /\ BackendQueries \subseteq {1}

VerifyPath ==
    op \in {"verify_permission", "verify_permission_for_model",
            "batch_verify_permissions_for_models", "batch_verify_permissions"}

\* the resources the verify_* invocation recorded in the state queried
Queried == IF res.calls = <<>> THEN {} ELSE res.calls[1].resources

\* the lazy single-resource checks made during a dehydration
FallbackCalls ==
    {i \in DOMAIN res.calls : res.calls[i].by = "batch_verify_permissions"}

\* C4 (as claimed): whenever the answer of the backend omits a queried
\* resource, the verify_* functions end with RuntimeError, whatever the
\* decisions on the other queried resources; and a lazy check made during
\* dehydration whose answer omits the resource ends the dehydration with
\* RuntimeError.
C4_OmissionIsRuntimeError ==
    /\ (VerifyPath /\ rbac_enabled /\ Queried \cap omitted # {}) =>
          res.exc = "RuntimeError"
    /\ (ReadPath /\ \E i \in FallbackCalls :
                        res.calls[i].resources \cap omitted # {}) =>
          res.exc = "RuntimeError"

\* C4 (amended): whenever the answer of the backend omits a queried
\* resource, the verify_* functions never return normally: they end with
\* RuntimeError for an omitted resource, unless the loop first reaches a
\* queried resource that the backend answered with false, and then they
\* raise IllegalOperationError for that resource; when no queried resource
\* is answered with false the outcome is RuntimeError. A lazy check made
\* during dehydration whose answer omits the resource ends the dehydration
\* with RuntimeError, and it is the last call made.
C4_OmissionNeverReturns ==
    /\ (VerifyPath /\ rbac_enabled /\ Queried \cap omitted # {}) =>
          /\ res.exc \in {"RuntimeError", "IllegalOperationError"}
          /\ res.exc = "RuntimeError" => res.resource \in Queried \cap omitted
          /\ res.exc = "IllegalOperationError" =>
                res.resource \in (Queried \cap denied) \ omitted
          /\ (Queried \cap denied) \ omitted = {} => res.exc = "RuntimeError"
    /\ ReadPath =>
          \A i \in FallbackCalls :
              res.calls[i].resources \cap omitted # {} =>
                  /\ res.exc = "RuntimeError"
                  /\ i = Len(res.calls)

C4_Witness ==
    /\ op = "batch_verify_permissions" /\ rbac_enabled
    /\ Queried \cap omitted # {}
    /\ (Queried \cap denied) \ omitted # {}
    /\ res.exc = "RuntimeError"

\* the resources that require a check: those of the models that are not
\* owned, each resolved to its permission model for the action
Required ==
    IF op \in {"batch_verify_permissions", "verify_permission"}
    THEN arg.resources
    ELSE {get_resource_for_model(
              IF arg.action = READ
                 /\ arg.models[i].cls = "ModelVersionResponseModel"
              THEN arg.models[i].f.model ELSE arg.models[i]) :
            i \in {j \in DOMAIN arg.models :
                      ~is_owned_by_authenticated_user(arg.models[j])}}
         \ {NoResource}

\* C5: with RBAC enabled and a backend that answers every queried resource,
\* the verify_* functions return normally if and only if every resource
\* that requires a check is decided true; otherwise they raise
\* IllegalOperationError, which names the action and a required resource
\* whose decision is false.
C5_GateOutcome ==
    (VerifyPath /\ rbac_enabled /\ Required \cap omitted = {}) =>
        /\ res.exc = "none" <=> Required \cap denied = {}
        /\ res.exc # "none" =>
              /\ res.exc = "IllegalOperationError"
              /\ res.resource \in Required \cap denied
              /\ res.action = arg.action

C5_Witness ==
    /\ op = "batch_verify_permissions_for_models" /\ rbac_enabled
    /\ omitted = {}
    /\ \E i \in DOMAIN arg.models :
          /\ OwnedByMe(arg.models[i])
          /\ get_resource_for_model(arg.models[i]) \in denied
    /\ res.exc = "IllegalOperationError"
    /\ res.resource \in denied

\* result has the structure of value: the same class and fields, containers
\* of the same kind with as many elements (mappings with the same keys), and
\* at every position of a model a model of the same class
RECURSIVE SameShape(_, _)
SameShape(value, result) ==
    IF IsModel(value)
    THEN /\ IsModel(result)
         /\ result.cls = value.cls
         /\ DOMAIN result.f = DOMAIN value.f
         /\ \/ IsResponse(value) /\ IsPlaceholderFor(value, result)
            \/ \A n \in DOMAIN value.f : SameShape(value.f[n], result.f[n])
    ELSE IF value.k = "dict"
         THEN /\ result.k = "dict"
              /\ result.keys = value.keys
              /\ Len(result.vals) = Len(value.vals)
              /\ \A i \in DOMAIN value.vals : SameShape(value.vals[i], result.vals[i])
    ELSE IF value.k = "list"
         THEN /\ result.k = "list"
              /\ Len(result.items) = Len(value.items)
              /\ \A i \in DOMAIN value.items :
                    SameShape(value.items[i], result.items[i])
    ELSE IF value.k = "tuple"
         THEN /\ result.k = "tuple"
              /\ Len(result.titems) = Len(value.titems)
              /\ \A i \in DOMAIN value.titems :
                    SameShape(value.titems[i], result.titems[i])
    ELSE IF value.k = "set"
         THEN /\ result.k = "set"
              /\ Cardinality(result.elems) = Cardinality(value.elems)
    ELSE result.k = value.k

\* C6 (as claimed): dehydrate_response_model(m) has the class and the fields
\* of m, every container is rebuilt as a container of the same kind with as
\* many elements in the same order, and every position that held a model
\* holds a model of the same class, dehydrated or placeholder.
C6_StructurePreserved ==
    (op = "dehydrate_response_model" /\ rbac_enabled /\ res.exc = "none") =>
        SameShape(arg.model, res.out)

\* C7: with RBAC disabled, dehydrate_response_model and dehydrate_page
\* return their input unchanged, the verify_* functions return normally,
\* and none of them queries the backend.
C7_DisabledBypass ==
    ~rbac_enabled =>
        /\ ReadPath => res.exc = "none" /\ res.out = arg.model /\ res.calls = <<>>
        /\ VerifyPath => res.exc = "none" /\ res.calls = <<>>

C7_Witness ==
    /\ ~rbac_enabled
    /\ op = "dehydrate_page"
    /\ PageResources(arg.model) \cap denied # {}
    /\ PageResources(arg.model) \cap omitted # {}
    /\ res.out = arg.model

BarePlaceholder(p) ==
    p \in Placeholders /\ (IsBaseResponse(p) \/ SubObjects(p) = {})

C9_LazyCheckOnlyWhenAbsent ==
    (op = "dehydrate_response_model" /\ rbac_enabled /\ omitted = {}) =>
        /\ arg.permissions = NoPermissions => Cardinality(BackendQueries) <= 1
        /\ arg.permissions # NoPermissions =>
              \A i \in FallbackCalls :
                  res.calls[i].resources \cap DOMAIN arg.permissions = {}

\* the resources of the response models reached from value without going
\* below a sub-object owned by the current identity
RECURSIVE ReachableOutsideOwned(_)
ReachableOutsideOwned(value) ==
    IF IsResponse(value)
    THEN IF OwnedByMe(value) THEN {}
         ELSE ({get_resource_for_model(PermissionModel(value))} \ {NoResource})
              \cup UNION {ReachableOutsideOwned(value.f[n]) : n \in DOMAIN value.f}
              \cup UNION {ReachableOutsideOwned(PermissionModel(value).f[n]) :
                            n \in DOMAIN PermissionModel(value).f}
    ELSE IF IsModel(value)
         THEN UNION {ReachableOutsideOwned(value.f[n]) : n \in DOMAIN value.f}
    ELSE IF value.k = "dict"
         THEN UNION {ReachableOutsideOwned(value.vals[i]) : i \in DOMAIN value.vals}
    ELSE IF value.k = "list"
         THEN UNION {ReachableOutsideOwned(value.items[i]) : i \in DOMAIN value.items}
    ELSE IF value.k = "tuple"
         THEN UNION {ReachableOutsideOwned(value.titems[i]) :
                        i \in DOMAIN value.titems}
    ELSE IF value.k = "set"
         THEN UNION {ReachableOutsideOwned(v) : v \in value.elems}
    ELSE {}

\* C10 (as claimed): get_subresources_for_model skips an owned sub-object
\* entirely, so the extracted set holds no resource that is reachable only
\* through an owned sub-object.
C10_OwnedSkippedEntirely ==
    op = "get_subresources_for_model" =>
        res.out \subseteq
            UNION {ReachableOutsideOwned(arg.model.f[n]) : n \in DOMAIN arg.model.f}

\* every response model of the graph below value, at any depth
RECURSIVE AllResponses(_)
AllResponses(value) ==
    IF IsModel(value)
    THEN (IF IsResponse(value) THEN {value} ELSE {})
         \cup UNION {AllResponses(value.f[n]) : n \in DOMAIN value.f}
    ELSE IF value.k = "dict"
         THEN UNION {AllResponses(value.vals[i]) : i \in DOMAIN value.vals}
    ELSE IF value.k = "list"
         THEN UNION {AllResponses(value.items[i]) : i \in DOMAIN value.items}
    ELSE IF value.k = "tuple"
         THEN UNION {AllResponses(value.titems[i]) : i \in DOMAIN value.titems}
    ELSE IF value.k = "set" THEN UNION {AllResponses(v) : v \in value.elems}
    ELSE {}

\* C10 (amended): when get_subresources_for_model visits a sub-object owned
\* by the current identity it adds no resource for the object itself, but
\* it still explores the fields of the object: every extracted resource is
\* the resource of a response model of the graph that is not owned, and the
\* resources nested inside an owned sub-object are part of the result.
C10_OwnedAddsOnlyNested ==
    op = "get_subresources_for_model" =>
        /\ \A r \in res.out :
              \E o \in AllResponses(arg.model) \ {arg.model} :
                  /\ ~OwnedByMe(o)
                  /\ get_resource_for_model(PermissionModel(o)) = r
        /\ \A o \in SubObjects(arg.model) :
              OwnedByMe(o) => get_subresources_for_model(o) \subseteq res.out

C10_Witness ==
    /\ op = "get_subresources_for_model"
    /\ \E o \in SubObjects(arg.model) :
          /\ OwnedByMe(o)
          /\ get_resource_for_model(o) # NoResource
          /\ get_resource_for_model(o) \notin res.out
          /\ \E r \in get_subresources_for_model(o) :
                /\ r \in res.out
                /\ r \notin UNION {ReachableOutsideOwned(arg.model.f[n]) :
                                      n \in DOMAIN arg.model.f}

\* value is a user-scoped response model that records no owning user
ServerOwned(value) == IsUserScoped(value) /\ UserOf(value) = None

NotServerOwned(value) == ~ServerOwned(value)

\* the models handed to the verify_*_for_model(s) invocation of the state
ModelsPath ==
    op \in {"batch_verify_permissions_for_models", "verify_permission_for_model"}

\* C11 (as claimed): a user-scoped object that records no owning user is
\* treated as owned by the current identity: its visit by
\* get_subresources_for_model adds no resource for the object itself,
\* batch_verify_permissions_for_models and verify_permission_for_model
\* decide as if it had not been passed (and return normally when nothing
\* else is passed), and dehydrate_response_model / dehydrate_page never
\* replace it by a placeholder, whatever the backend decides; an object that
\* is not user-scoped is never treated as owned: its resource is extracted
\* and is queried by the verify functions.
C11_ServerOwnedIsOwned ==
    /\ op = "get_subresources_for_model" =>
          \A o \in SubObjects(arg.model) :
              /\ ServerOwned(o) =>
                    _get_subresources_for_value(o) = get_subresources_for_model(o)
              /\ (~IsUserScoped(o) /\ get_resource_for_model(o) # NoResource) =>
                    get_resource_for_model(o) \in res.out
    /\ (ModelsPath /\ rbac_enabled) =>
          /\ (\A i \in DOMAIN arg.models : ServerOwned(arg.models[i])) =>
                res.exc = "none" /\ Queried = {}
          /\ op = "batch_verify_permissions_for_models" =>
                res = batch_verify_permissions_for_models(
                          SelectSeq(arg.models, NotServerOwned),
                          arg.action, arg.order)
          /\ \A i \in DOMAIN arg.models :
                (~IsUserScoped(arg.models[i])
                    /\ get_resource_for_model(arg.models[i]) # NoResource) =>
                    get_resource_for_model(arg.models[i]) \in Queried
    /\ (ReadPath /\ rbac_enabled) =>
          \A p \in Visited :
              ServerOwned(p.orig) => ~IsPlaceholderFor(p.orig, p.new)

====
